---- MODULE Spec2Model ----
(***************************************************************************)
(* DatumProducer of openpose/producer/datumProducer.hpp: the producer      *)
(* object, the Producer (frame source) it pulls from, the shared video     *)
(* seek pair {paused, increment} and the controller thread that writes it. *)
(*                                                                         *)
(* checkIfRunningAndGetDatum() is split at its accesses to the shared      *)
(* atomics (the two loads of line 92, the store of line 97); everything    *)
(* else of the call touches only state of the calling thread.              *)
(***************************************************************************)
EXTENDS Integers, Sequences, FiniteSets, TLC

----------------------------------------------------------------------------
(* Bounds of the model *)

MaxFrameFirst == 1
MaxFrameLast == 2
MaxPos == 3
MaxViews == 2
MaxCount == 4
MaxRun == 2
MaxCtlUpdates == 2
MaxSeekCount == 2
MaxStallRun == 501
MaxBack == 1

----------------------------------------------------------------------------
(* Values *)

\* unsigned long long values are written in two's complement: a negative n
\* stands for 2^64 + n, so -1 is std::numeric_limits<unsigned long long>::max()
ULLMax == -1

\* a > b on unsigned long long
UGreater(a, b) == IF (a < 0) = (b < 0) THEN a > b ELSE a < 0

\* a - b on unsigned long long (wraps below zero into the values near 2^64)
USub(a, b) == a - b

FrameFirsts == 0..MaxFrameFirst
FrameLasts == (0..MaxFrameLast) \cup {ULLMax}

\* the values the controller writes into the increment
SeekValues == {0, 1}

Nullptr == "nullptr"

\* cv::Mat: what the producer looks at is empty() and channels(). A failed
\* read yields the default-constructed cv::Mat(), whose channels() is 1.
Mat(c) == [empty |-> FALSE, channels |-> c]
EmptyMat == [empty |-> TRUE, channels |-> 1]
Images == {EmptyMat} \cup {Mat(c) : c \in 1..4}
\* further views of a synchronized capture
OtherImages == {EmptyMat, Mat(3), Mat(4)}

\* what getFrames() may return: no view at all, or 1..MaxViews views
FrameSets ==
    {<<>>} \cup
    UNION {{<<first>> \o rest : first \in Images, rest \in [1..(n-1) -> OtherImages]}
           : n \in 1..MaxViews}

----------------------------------------------------------------------------
(* State *)

VARIABLES
    range,                          \* the constructor's frameFirst, frameLast
    mNumberFramesToProcess,
    mGlobalCounter,
    mNumberConsecutiveEmptyFrames,
    spVideoSeek,                    \* Nullptr, or the handle of the shared pair
    spProducer,                     \* the Producer: type, opened, cursor, calibration
    videoSeek,                      \* the shared pair: first = paused, second = increment
    pc,                             \* where the calling thread is in the call
    call,                           \* locals of the call in progress (kept until the next call)
    ret,                            \* how the last call ended
    ctl,                            \* the controller thread's update in progress
    obs                             \* history: calls, deliveries, controller writes

vars == <<range, mNumberFramesToProcess, mGlobalCounter, mNumberConsecutiveEmptyFrames,
          spVideoSeek, spProducer, videoSeek, pc, call, ret, ctl, obs>>

Fields == {"first", "second"}
Other(f) == IF f = "first" THEN "second" ELSE "first"

\* std::shared_ptr<TDatumsNoPtr>: nullptr, or a vector of Datum
NullDatums == [null |-> TRUE, data |-> <<>>]
Datums(data) == [null |-> FALSE, data |-> data]

NoRet == [kind |-> "none"]
\* std::make_pair(datumProducerRunning, datums)
Return(running, datums) == [kind |-> "return", running |-> running, datums |-> datums]
\* a std::runtime_error leaving the call
Raised(what) == [kind |-> "error", what |-> what]
\* the process dies in an out-of-bounds read
Crashed == [kind |-> "crash"]

CtlIdle == [todo |-> {}, first |-> FALSE, second |-> 0]

\* the locals of a call that starts with the counters at g and e
NewCall(g, e) ==
    [loaded |-> {}, first |-> FALSE, second |-> 0,
     ver |-> [first |-> 0, second |-> 0],
     g0 |-> g, e0 |-> e, running |-> FALSE, released |-> FALSE,
     pos0 |-> 0, moved |-> FALSE, seekFailed |-> FALSE, read |-> FALSE, cvMats |-> <<>>,
     populated |-> FALSE,
     seek0 |-> <<FALSE, 0>>, seekTo |-> <<>>, posRead |-> 0, reads |-> {},
     counted |-> FALSE]

----------------------------------------------------------------------------
(* DatumProducer::DatumProducer, lines 49-69 *)

\* lines 53-54
NumberFramesToProcess(frameFirst, frameLast) ==
    IF frameLast # ULLMax THEN USub(frameLast, frameFirst) ELSE frameLast

\* lines 62-63: every producer but a webcam is positioned on frameFirst
InitialPosition(type, frameFirst) ==
    IF type # "Webcam" THEN frameFirst ELSE 0

Construct(type, frameFirst, frameLast, seek, paused, increment, calib, stream) ==
    /\ range = [first |-> frameFirst, last |-> frameLast]
    /\ mNumberFramesToProcess = NumberFramesToProcess(frameFirst, frameLast)
    /\ mGlobalCounter = 0
    /\ mNumberConsecutiveEmptyFrames = 0
    /\ spVideoSeek = seek
    /\ spProducer = [type |-> type, opened |-> TRUE, released |-> FALSE,
                     pos |-> InitialPosition(type, frameFirst), calib |-> calib,
                     stream |-> stream]
    /\ videoSeek = [first |-> paused, second |-> increment,
                    ver |-> [first |-> 0, second |-> 0]]
    /\ pc = "idle"
    /\ call = NewCall(0, 0)
    /\ ret = NoRet
    /\ ctl = CtlIdle
    /\ obs = [delivered |-> 0, updates |-> 0, written |-> {<<paused, increment>>},
              applied |-> -1, twice |-> FALSE, erased |-> FALSE, stalledAt |-> -1]

\* lengths of getCameraMatrices(), getCameraExtrinsics(), getCameraIntrinsics()
Calibrated(n) == [m |-> n, e |-> n, i |-> n]

\* the pair as the controller left it before the first call; without a
\* channel there is nothing to read
SeekStates(seek) ==
    IF seek = Nullptr THEN {<<FALSE, 0>>} ELSE BOOLEAN \X SeekValues

\* the streams of the general specification: single frames of every kind, and
\* synchronized views
Streams == {FrameSets}

Init ==
    \E type \in {"Webcam", "Video"}, frameFirst \in FrameFirsts, frameLast \in FrameLasts,
       seek \in {Nullptr, "videoSeek"}, stream \in Streams :
        \E ps \in SeekStates(seek) :
            Construct(type, frameFirst, frameLast, seek, ps[1], ps[2], Calibrated(MaxViews),
                      stream)

----------------------------------------------------------------------------
(* checkIfRunningAndGetDatum, lines 99-164: the read and the batch *)

threshold == 500

\* mutant: the comparison of line 179 is strict
checkIfTooManyStrict(numberConsecutiveEmptyFrames, emptyFrame) ==
    LET count == IF emptyFrame THEN numberConsecutiveEmptyFrames + 1 ELSE 0
    IN  [count |-> count, raised |-> count > threshold]

\* mutant: line 177 never resets the count
checkIfTooManyNoReset(numberConsecutiveEmptyFrames, emptyFrame) ==
    LET count == numberConsecutiveEmptyFrames + 1
    IN  [count |-> count, raised |-> count >= threshold]

\* line 177 and lines 178-181: the new count, and whether error() is called
checkIfTooManyConsecutiveEmptyFrames(numberConsecutiveEmptyFrames, emptyFrame) ==
    LET count == IF emptyFrame THEN numberConsecutiveEmptyFrames + 1 ELSE 0
    IN  [count |-> count, raised |-> count >= threshold]

\* line 106: cvMats.empty() || cvMats[0].empty()
EmptyFrame(cvMats) == cvMats = <<>> \/ cvMats[1].empty

\* getNextFrameName(): the label of the frame under the cursor
FrameName(pos) == <<"frame", pos>>

\* element i (0-based) of a calibration vector of length len; past its end the
\* read is out of bounds and yields whatever lies there
NoCalib == <<"none">>
Garbage == <<"garbage">>
CalibAt(len, i) == IF i < len THEN <<"cal", i>> ELSE Garbage

\* lines 116-121 (i = 0: !cameraMatrices.empty()) and 147-152 (cameraMatrices.size() > i)
CopiesCalib(calib, i) == calib.m > i
OutOfBounds(calib, i) == CopiesCalib(calib, i) /\ (calib.e <= i \/ calib.i <= i)

\* what cv::cvtColor does with an image without pixels depends on the OpenCV
\* the program is built with: it hands back an image without pixels, or it
\* raises a cv::Exception
CvtFlavours == {"accepts", "raises"}

\* cv::cvtColor(src, dst, CV_GRAY2BGR): the grey channel replicated three
\* times
cvtColorGray2BGR(img, cvt) ==
    IF img.empty /\ cvt = "raises"
    THEN [image |-> img, raised |-> TRUE]
    ELSE [image |-> [img EXCEPT !.channels = 3], raised |-> FALSE]

\* mutant: every number of channels but 1 is taken as it is
ImageIntegrityLax(cvInputData, cvt) ==
    IF cvInputData.channels = 1
    THEN [image |-> cvtColorGray2BGR(cvInputData, cvt).image,
          raised |-> cvtColorGray2BGR(cvInputData, cvt).raised, what |-> "cv"]
    ELSE [image |-> cvInputData, raised |-> FALSE, what |-> "channels"]

\* lines 123-134: the image to keep, whether the call ends in an exception and
\* which: the cv::Exception of line 130 or the error() of line 133
ImageIntegrity(cvInputData, cvt) ==
    IF cvInputData.channels # 3
    THEN IF cvInputData.channels = 1
         THEN [image |-> cvtColorGray2BGR(cvInputData, cvt).image,
               raised |-> cvtColorGray2BGR(cvInputData, cvt).raised, what |-> "cv"]
         ELSE [image |-> cvInputData, raised |-> TRUE, what |-> "channels"]
    ELSE [image |-> cvInputData, raised |-> FALSE, what |-> "channels"]

\* mutant: every view is numbered on its own
MakeDatumOwnIndex(name, frameNumber, image, calib, i) ==
    [name |-> name, frameNumber |-> frameNumber + i,
     cvInputData |-> image, cvOutputData |-> image,
     cameraMatrix |-> IF CopiesCalib(calib, i) THEN CalibAt(calib.m, i) ELSE NoCalib,
     cameraExtrinsics |-> IF CopiesCalib(calib, i) THEN CalibAt(calib.e, i) ELSE NoCalib,
     cameraIntrinsics |-> IF CopiesCalib(calib, i) THEN CalibAt(calib.i, i) ELSE NoCalib]

\* datum i (0-based) of the batch, lines 111-121, 135 and 142-152
MakeDatum(name, frameNumber, image, calib, i) ==
    [name |-> name, frameNumber |-> frameNumber,
     cvInputData |-> image, cvOutputData |-> image,
     cameraMatrix |-> IF CopiesCalib(calib, i) THEN CalibAt(calib.m, i) ELSE NoCalib,
     cameraExtrinsics |-> IF CopiesCalib(calib, i) THEN CalibAt(calib.e, i) ELSE NoCalib,
     cameraIntrinsics |-> IF CopiesCalib(calib, i) THEN CalibAt(calib.i, i) ELSE NoCalib]

\* lines 109-154 without the exceptions of lines 130 and 133: the filled batch
FillDatums(name, frameNumber, cvMats, calib, cvt) ==
    [k \in 1..Len(cvMats) |->
        MakeDatum(name, frameNumber,
                  IF k = 1 THEN ImageIntegrity(cvMats[1], cvt).image ELSE cvMats[k],
                  calib, k - 1)]

\* mutant: an empty first image is not looked at
DiscardedNotRunning(datumProducerRunning, datums) ==
    ~datumProducerRunning

\* line 156: the batch is dropped
Discarded(datumProducerRunning, datums) ==
    ~datumProducerRunning \/ datums[1].cvInputData.empty

\* mutant: the counter does not look at the batch
CountAlways(globalCounter, datums) ==
    globalCounter + 1

\* lines 159-160
CountDelivery(globalCounter, datums) ==
    IF ~datums.null THEN globalCounter + 1 ELSE globalCounter

\* getFrames() at cursor pos: past the last frame every read is empty
FramesAt(stream, pos) ==
    IF pos < MaxPos THEN stream ELSE {f \in stream \cup {<<>>} : EmptyFrame(f)}

\* the cursor after getFrames(): a frame that was read moves it on by one
Advance(pos, cvMats) == IF EmptyFrame(cvMats) THEN pos ELSE pos + 1

\* line 100: (unsigned long long)get(CV_CAP_PROP_POS_FRAMES). The conversion
\* of a negative double is undefined: it wraps (-1 is 2^64 - 1) or it
\* saturates at 0, depending on the target
Casts(pos) == IF pos < 0 THEN {"wraps", "saturates"} ELSE {"wraps"}

FrameNumber(pos, cast) == IF pos < 0 /\ cast = "saturates" THEN 0 ELSE pos

\* lines 105-164 on an open source, after cvMats was read with the cursor at
\* pos: the counters after the call and how it ends. ub is what an
\* out-of-bounds read of a calibration vector does in this build, cvt what
\* cv::cvtColor does with an image without pixels, cast what line 100 does
\* with a negative position.
GetDatum(pos, calib, globalCounter, emptyFrames, cvMats, ub, cvt, cast) ==
    LET stall == checkIfTooManyConsecutiveEmptyFrames(emptyFrames, EmptyFrame(cvMats))
        filled == FillDatums(FrameName(pos), FrameNumber(pos, cast), cvMats, calib, cvt)
        integrity == ImageIntegrity(cvMats[1], cvt)
        datums == IF cvMats = <<>> THEN Datums(<<>>)
                  ELSE IF Discarded(TRUE, filled) THEN NullDatums
                  ELSE Datums(filled)
        crash0 == cvMats # <<>> /\ OutOfBounds(calib, 0) /\ ub = "crash"
        crashI == \E i \in 1..(Len(cvMats) - 1) : OutOfBounds(calib, i) /\ ub = "crash"
        out == IF stall.raised THEN Raised("stall")
               ELSE IF crash0 THEN Crashed
               ELSE IF cvMats # <<>> /\ integrity.raised THEN Raised(integrity.what)
               ELSE IF crashI THEN Crashed
               ELSE Return(TRUE, datums)
        reached(i) == /\ ~stall.raised
                      /\ i > 0 => ~integrity.raised
                      /\ \A j \in 0..(i - 1) : ~(OutOfBounds(calib, j) /\ ub = "crash")
    IN  [ret |-> out,
         reads |-> {i \in 0..(Len(cvMats) - 1) : CopiesCalib(calib, i) /\ reached(i)},
         populated |-> cvMats # <<>> /\ ~stall.raised /\ ~crash0,
         emptyFrames |-> stall.count,
         globalCounter |-> IF out.kind = "return" /\ cvMats # <<>>
                           THEN CountDelivery(globalCounter, datums)
                           ELSE globalCounter]

\* a batch was handed to the caller
Delivered(r) == r.kind = "return" /\ ~r.datums.null /\ r.datums.data # <<>>

----------------------------------------------------------------------------
(* checkIfRunningAndGetDatum, lines 72-171: the steps of a call *)

\* mutant: the range is checked one frame late
RangeReachedLate(numberFramesToProcess, globalCounter) ==
    /\ numberFramesToProcess # ULLMax
    /\ UGreater(globalCounter, numberFramesToProcess + 1)

\* mutant: the range is checked one frame early
RangeReachedEarly(numberFramesToProcess, globalCounter) ==
    /\ numberFramesToProcess # ULLMax
    /\ UGreater(globalCounter + 1, numberFramesToProcess)

\* mutant: the range is never checked
RangeReachedNever(numberFramesToProcess, globalCounter) ==
    FALSE

\* lines 78-79
RangeReached(numberFramesToProcess, globalCounter) ==
    /\ numberFramesToProcess # ULLMax
    /\ UGreater(globalCounter, numberFramesToProcess)

\* mutant: the pause flag is not looked at
SeekIncrementNoPause(first, second) == second

\* line 92: pause is a step back of one frame
SeekIncrement(first, second) == second - (IF first THEN 1 ELSE 0)

\* mutant: the increment is taken for a frame index
SeekTargetAbsolute(pos, increment) == increment

\* line 95: the value handed to set(): get(CV_CAP_PROP_POS_FRAMES) + increment
SeekTarget(pos, increment) == pos + increment

\* lines 76-86: release() past the range, then isOpened(); either may end in
\* an exception, which the catch block of lines 166-170 turns into error().
\* A closed source ends the call at line 164 with the batch of line 76.
Begin(maxCount, maxRun) ==
    /\ pc = "idle"
    /\ mGlobalCounter < maxCount
    /\ mNumberConsecutiveEmptyFrames < maxRun
    /\ \E throws \in {"no", "release", "isOpened"} :
        LET released == RangeReached(mNumberFramesToProcess, mGlobalCounter)
            failed == throws = "isOpened" \/ (throws = "release" /\ released)
            done == released /\ throws # "release"
            datumProducerRunning == ~failed /\ spProducer.opened /\ ~released
        IN  /\ spProducer' = [spProducer EXCEPT !.opened = IF done THEN FALSE ELSE @,
                                                !.released = @ \/ done]
            /\ call' = [NewCall(mGlobalCounter, mNumberConsecutiveEmptyFrames)
                          EXCEPT !.running = datumProducerRunning, !.released = released,
                                 !.pos0 = spProducer.pos,
                                 !.seek0 = <<videoSeek.first, videoSeek.second>>]
            /\ pc' = IF ~datumProducerRunning THEN "idle"
                     ELSE IF spVideoSeek # Nullptr THEN "seek" ELSE "fetch"
            /\ ret' = IF failed THEN Raised("io")
                      ELSE IF datumProducerRunning THEN NoRet
                      ELSE Return(FALSE, Datums(<<>>))
    /\ UNCHANGED <<range, mNumberFramesToProcess, mGlobalCounter,
                   mNumberConsecutiveEmptyFrames, spVideoSeek, videoSeek, ctl, obs>>

\* line 92: the two atomic loads, in the order the compiler chose
SeekLoad ==
    /\ pc = "seek"
    /\ \E f \in Fields \ call.loaded :
        /\ call' = [call EXCEPT !.loaded = @ \cup {f}, ![f] = videoSeek[f],
                                !.ver[f] = videoSeek.ver[f]]
        /\ pc' = IF call.loaded = {} THEN "seek" ELSE "apply"
    /\ UNCHANGED <<range, mNumberFramesToProcess, mGlobalCounter,
                   mNumberConsecutiveEmptyFrames, spVideoSeek, spProducer, videoSeek,
                   ret, ctl, obs>>

\* what lines 94-97 do to the increments the controller wrote: the one this
\* call loaded is applied, one written since the load is wiped out by the store
Consume(o, loadedId, loadedValue, storedId, storedValue) ==
    [o EXCEPT !.applied = IF loadedValue # 0 THEN loadedId ELSE @,
              !.twice = @ \/ (loadedValue # 0 /\ loadedId = o.applied),
              !.erased = @ \/ (storedId # loadedId /\ storedValue # 0)]

\* lines 94-97: the cursor move, where get() or set() may end in an
\* exception, and the store of 0 into the increment. set() is handed whatever
\* get() + increment is; a source that does not raise takes it. The model
\* follows the cursor down to -MaxBack.
SeekApply ==
    /\ pc = "apply"
    /\ \E throws \in {"no", "get", "set"} :
        LET increment == SeekIncrement(call.first, call.second)
            target == SeekTarget(spProducer.pos, increment)
            issued == increment # 0 /\ throws # "get"
            failed == increment # 0 /\ throws # "no"
        IN  IF failed
            THEN /\ ret' = Raised("io")
                 /\ pc' = "idle"
                 /\ call' = [call EXCEPT !.seekFailed = TRUE,
                                         !.seekTo = IF issued THEN <<target>> ELSE <<>>]
                 /\ UNCHANGED <<spProducer, videoSeek, obs>>
            ELSE /\ increment # 0 => target >= -MaxBack
                 /\ spProducer' = [spProducer EXCEPT !.pos = IF increment # 0 THEN target ELSE @]
                 /\ videoSeek' = [videoSeek EXCEPT !.second = 0]
                 /\ obs' = Consume(obs, call.ver.second, call.second,
                                   videoSeek.ver.second, videoSeek.second)
                 /\ call' = [call EXCEPT !.moved = increment # 0,
                                         !.seekTo = IF increment # 0 THEN <<target>> ELSE <<>>]
                 /\ pc' = "fetch"
                 /\ UNCHANGED ret
    /\ UNCHANGED <<range, mNumberFramesToProcess, mGlobalCounter,
                   mNumberConsecutiveEmptyFrames, spVideoSeek, ctl>>

\* the builds that differ on this read: an out-of-bounds read of a
\* calibration vector, cv::cvtColor of an image without pixels
Ubs(calib, cvMats) ==
    IF \E i \in 0..(Len(cvMats) - 1) : OutOfBounds(calib, i)
    THEN {"garbage", "crash"} ELSE {"garbage"}

Cvts(cvMats) ==
    IF cvMats # <<>> /\ cvMats[1].empty THEN CvtFlavours ELSE {"accepts"}

\* lines 99-170: the read, the batch, the counters and the return. A call of
\* the source may end in an exception before the frames are read (lines
\* 99-101) or after (lines 102-104), when the cursor has moved on.
Fetch ==
    /\ pc = "fetch"
    /\ \/ /\ ret' = Raised("io")
          /\ pc' = "idle"
          /\ UNCHANGED <<mGlobalCounter, mNumberConsecutiveEmptyFrames, spProducer,
                         call, obs>>
       \/ \E cvMats \in FramesAt(spProducer.stream, spProducer.pos) :
          /\ ret' = Raised("io")
          /\ pc' = "idle"
          /\ spProducer' = [spProducer EXCEPT !.pos = Advance(@, cvMats)]
          /\ call' = [call EXCEPT !.read = TRUE, !.posRead = spProducer.pos]
          /\ UNCHANGED <<mGlobalCounter, mNumberConsecutiveEmptyFrames, obs>>
       \/ \E cvMats \in FramesAt(spProducer.stream, spProducer.pos) :
          \E ub \in Ubs(spProducer.calib, cvMats), cvt \in Cvts(cvMats),
             cast \in Casts(spProducer.pos) :
            LET r == GetDatum(spProducer.pos, spProducer.calib, mGlobalCounter,
                              mNumberConsecutiveEmptyFrames, cvMats, ub, cvt, cast)
            IN  /\ ret' = r.ret
                /\ pc' = IF r.ret.kind = "crash" THEN "crashed" ELSE "idle"
                /\ mNumberConsecutiveEmptyFrames' = r.emptyFrames
                /\ mGlobalCounter' = r.globalCounter
                /\ spProducer' = [spProducer EXCEPT !.pos = Advance(@, cvMats)]
                /\ call' = [call EXCEPT !.read = TRUE, !.cvMats = cvMats,
                                        !.populated = r.populated, !.counted = TRUE,
                                        !.posRead = spProducer.pos, !.reads = r.reads]
                /\ obs' = [obs EXCEPT !.delivered = IF Delivered(r.ret) THEN @ + 1 ELSE @,
                                      !.stalledAt = IF @ = -1 /\ r.ret = Raised("stall")
                                                    THEN mGlobalCounter ELSE @]
    /\ UNCHANGED <<range, mNumberFramesToProcess, spVideoSeek, videoSeek, ctl>>

----------------------------------------------------------------------------
(* The environment: the controller thread and the source *)

\* one store of the controller into the shared pair. An update of the pair
\* {paused, increment} is two stores, in either order.
CtlStore ==
    /\ spVideoSeek # Nullptr
    /\ \E p \in BOOLEAN, i \in SeekValues, f \in Fields :
        LET starting == ctl.todo = {}
            upd == IF starting THEN [todo |-> Fields, first |-> p, second |-> i] ELSE ctl
            id == IF starting THEN obs.updates + 1 ELSE obs.updates
        IN  /\ IF starting THEN obs.updates < MaxCtlUpdates
                           ELSE p = ctl.first /\ i = ctl.second
            /\ f \in upd.todo
            /\ videoSeek' = [videoSeek EXCEPT ![f] = upd[f], !.ver[f] = id]
            /\ ctl' = IF upd.todo = {f} THEN CtlIdle ELSE [upd EXCEPT !.todo = @ \ {f}]
            /\ obs' = [obs EXCEPT !.updates = id,
                                  !.written = @ \cup {<<upd.first, upd.second>>}]
    /\ UNCHANGED <<range, mNumberFramesToProcess, mGlobalCounter,
                   mNumberConsecutiveEmptyFrames, spVideoSeek, spProducer, pc, call, ret>>

\* the source closes by itself: the stream ends, the device goes away
SourceEnds ==
    /\ spProducer.opened
    /\ spProducer' = [spProducer EXCEPT !.opened = FALSE]
    /\ UNCHANGED <<range, mNumberFramesToProcess, mGlobalCounter,
                   mNumberConsecutiveEmptyFrames, spVideoSeek, videoSeek, pc, call, ret,
                   ctl, obs>>

----------------------------------------------------------------------------
(* Specifications *)

\* the producer pulled in a loop by its caller; the controller has set the
\* pair before the first call
Next ==
    \/ Begin(MaxCount, MaxRun)
    \/ SeekLoad
    \/ SeekApply
    \/ Fetch
    \/ SourceEnds

Spec == Init /\ [][Next]_vars

\* the producer and the controller thread side by side, on a video of
\* 3-channel frames with no frame range
InitSeek ==
    Construct("Video", 0, ULLMax, "videoSeek", FALSE, 0, Calibrated(0), {<<Mat(3)>>})

NextSeek ==
    \/ Begin(MaxSeekCount, MaxRun)
    \/ SeekLoad
    \/ SeekApply
    \/ Fetch
    \/ CtlStore
    \/ SourceEnds

SpecSeek == InitSeek /\ [][NextSeek]_vars

\* a source that stays open and may stop yielding frames
InitStall ==
    Construct("Video", 0, ULLMax, Nullptr, FALSE, 0, Calibrated(0),
              {<<>>, <<EmptyMat>>, <<Mat(3)>>, <<EmptyMat, Mat(3)>>})

NextStall ==
    \/ Begin(MaxCount, MaxStallRun)
    \/ Fetch
    \/ SourceEnds

SpecStall == InitStall /\ [][NextStall]_vars

\* calibration vectors of any three lengths, over captures whose further
\* views are 3-channel images
CalibLengths == 0..MaxViews

CalibStream == {f \in FrameSets : \A k \in DOMAIN f : k > 1 => f[k] = Mat(3)}

InitCalib ==
    \E m \in CalibLengths, e \in CalibLengths, i \in CalibLengths :
        Construct("Video", 0, ULLMax, Nullptr, FALSE, 0, [m |-> m, e |-> e, i |-> i],
                  CalibStream)

NextCalib ==
    \/ Begin(MaxCount, MaxRun)
    \/ Fetch
    \/ SourceEnds

SpecCalib == InitCalib /\ [][NextCalib]_vars

\* the pull loop: a caller that calls again and again, over a source that
\* closes only when it is released, never raises and has a 3-channel frame
\* for every read inside the range
LoopStreams == {{<<Mat(3)>>}, {<<Mat(3), Mat(3)>>}, {<<Mat(3)>>, <<Mat(3), Mat(3)>>}}

InitLoop ==
    \E type \in {"Webcam", "Video"}, frameFirst \in FrameFirsts, frameLast \in FrameLasts,
       n \in {0, MaxViews}, stream \in LoopStreams :
        Construct(type, frameFirst, frameLast, Nullptr, FALSE, 0, Calibrated(n), stream)

\* lines 76-86 and 99-164 over a source whose calls do not raise
BeginSound == Begin(MaxCount, MaxRun) /\ ret' # Raised("io")

FetchSound == Fetch /\ ret' # Raised("io")

NextLoop ==
    \/ BeginSound
    \/ FetchSound

SpecLoop == InitLoop /\ [][NextLoop]_vars /\ WF_vars(NextLoop)

----------------------------------------------------------------------------
(* Properties *)

\* a call has ended and no other has begun
CallDone == pc = "idle" /\ ret.kind # "none"

\* the constructor was given a range [frameFirst, frameLast) with an end
BoundedRange == range.last # ULLMax /\ range.first <= range.last

\* C1 as stated: a producer with a bounded range delivers at most
\* frameLast - frameFirst batches
RangeBoundExclusive ==
    BoundedRange => obs.delivered <= range.last - range.first

\* C1: a producer with a bounded range delivers at most
\* frameLast - frameFirst + 1 batches, whatever is read and sought
RangeBoundInclusive ==
    BoundedRange => obs.delivered <= range.last - range.first + 1

\* the range [0, 2) or [1, 3) was used up by three deliveries and the next
\* call released the source
RangeBoundReached ==
    /\ BoundedRange
    /\ range.last - range.first = 2
    /\ obs.delivered = 3
    /\ CallDone /\ call.released
    /\ ret = Return(FALSE, Datums(<<>>))

\* C2: a call that finds the source closed returns (false, nullptr) and
\* leaves mGlobalCounter alone
Exhaustion ==
    (CallDone /\ ret.kind = "return" /\ ~call.running) =>
        /\ ret = Return(FALSE, NullDatums)
        /\ mGlobalCounter = call.g0

\* C3: a call that loaded an increment other than 0 ends with 0 in the
\* increment, unless the controller has stored another one since the load
SeekOneShot ==
    (CallDone /\ "second" \in call.loaded /\ call.second # 0
        /\ videoSeek.ver.second = call.ver.second)
    => videoSeek.second = 0

\* C4: no increment the controller wrote is wiped out unapplied, and none is
\* applied twice
SeekAppliedOnce ==
    ~obs.erased /\ ~obs.twice

\* C5: the pair the producer computes its move from was written by one update
\* of the controller: its two halves come from the same update, or it is at
\* least a pair that some update wrote
NoTornPair ==
    pc = "apply" =>
        \/ call.ver.first = call.ver.second
        \/ <<call.first, call.second>> \in obs.written

\* C6: the n-th empty read in a row returns for n < 500 and raises the stall
\* error for n = 500; a read that is not empty brings the count back to 0
StallThreshold ==
    (CallDone /\ call.counted) =>
        /\ mNumberConsecutiveEmptyFrames =
              IF EmptyFrame(call.cvMats) THEN call.e0 + 1 ELSE 0
        /\ (EmptyFrame(call.cvMats) /\ call.e0 + 1 <= 499) => ret.kind = "return"
        /\ (EmptyFrame(call.cvMats) /\ call.e0 + 1 = 500) => ret = Raised("stall")

\* the 500th empty read in a row has raised the stall error
StallRaised ==
    /\ CallDone /\ call.read /\ EmptyFrame(call.cvMats)
    /\ call.e0 = 499
    /\ ret = Raised("stall")

\* C7 as stated: a call ends with (true, a batch with a populated view), with
\* (false, nullptr) or with an error
CallOutcomesThree ==
    CallDone =>
        \/ ret.kind = "error"
        \/ /\ ret.kind = "return" /\ ret.running
           /\ ~ret.datums.null
           /\ \E k \in DOMAIN ret.datums.data : ~ret.datums.data[k].cvInputData.empty
        \/ ret = Return(FALSE, NullDatums)

\* C7: a call ends with an error or returns one of four pairs: (true, batch
\* with as many views as were read and a first view that is not empty),
\* (true, nullptr) when the first image read is empty, (true, empty batch)
\* when no view was read, (false, empty batch) when the source is closed
CallOutcomes ==
    CallDone =>
        \/ ret.kind = "error"
        \/ /\ ret.kind = "return" /\ ret.running
           /\ call.read /\ ~EmptyFrame(call.cvMats)
           /\ ~ret.datums.null
           /\ Len(ret.datums.data) = Len(call.cvMats)
           /\ ~ret.datums.data[1].cvInputData.empty
        \/ /\ ret = Return(TRUE, NullDatums)
           /\ call.read /\ call.cvMats # <<>> /\ call.cvMats[1].empty
        \/ /\ ret = Return(TRUE, Datums(<<>>))
           /\ call.read /\ call.cvMats = <<>>
        \/ /\ ret = Return(FALSE, Datums(<<>>))
           /\ ~call.running

\* two views were read, the first of them empty, and the call returned
\* (true, nullptr)
OutcomeTrueNull ==
    /\ CallDone
    /\ call.read /\ Len(call.cvMats) = 2 /\ call.cvMats[1].empty
    /\ ret = Return(TRUE, NullDatums)

\* C8: a call that filled the batch (lines 109-115) from a first image that
\* is empty returns (true, nullptr) and leaves mGlobalCounter alone
DiscardOnEmpty ==
    (CallDone /\ call.populated /\ call.cvMats[1].empty) =>
        /\ ret = Return(TRUE, NullDatums)
        /\ mGlobalCounter = call.g0

\* after a delivery, a capture of two views with an empty first image was
\* dropped
DiscardedBatch ==
    /\ CallDone /\ call.populated
    /\ call.cvMats = <<EmptyMat, Mat(3)>>
    /\ call.g0 >= 1
    /\ ret = Return(TRUE, NullDatums)

\* C9 as stated: the count of empty frames is 0 after a call that delivers
\* and one more after any other call
StallCouplingDelivery ==
    CallDone =>
        mNumberConsecutiveEmptyFrames = IF Delivered(ret) THEN 0 ELSE call.e0 + 1

\* C9: the count of empty frames is 0 after a call that read a first image
\* that is not empty (delivered or not), one more after a call whose read was
\* empty, and unchanged after a call that did not get to line 106
StallCoupling ==
    CallDone =>
        /\ mNumberConsecutiveEmptyFrames =
              IF ~call.counted THEN call.e0
              ELSE IF EmptyFrame(call.cvMats) THEN call.e0 + 1
              ELSE 0
        /\ Delivered(ret) => mNumberConsecutiveEmptyFrames = 0

\* after an empty read, a frame of 2 or 4 channels raised the channel error
\* and the count is back to 0
StallResetByChannelError ==
    /\ CallDone
    /\ ret = Raised("channels")
    /\ call.e0 >= 1
    /\ mNumberConsecutiveEmptyFrames = 0

\* C10: mGlobalCounter is the number of calls that returned a batch, and a
\* call adds one to it exactly when it returns a batch
ProcessedCount ==
    /\ mGlobalCounter = obs.delivered
    /\ CallDone => mGlobalCounter = call.g0 + (IF Delivered(ret) THEN 1 ELSE 0)

\* two batches delivered from a paused source whose cursor was moved back
\* before each read
DeliveredWhilePaused ==
    /\ CallDone /\ Delivered(ret)
    /\ call.moved /\ videoSeek.first
    /\ obs.delivered = 2
    /\ spProducer.pos = 1

\* C11: a call that read (paused, increment) from the seek channel hands
\* set() the position it started at plus increment - (paused ? 1 : 0), and
\* does not call set() when that delta is 0; unless the source raises, the
\* cursor is at that position when the fetch begins
SeekDelta ==
    (call.loaded = Fields /\ pc # "apply") =>
        LET delta == call.second - (IF call.first THEN 1 ELSE 0)
        IN  /\ delta = 0 => call.seekTo = <<>> /\ ~call.seekFailed
            /\ (delta # 0 /\ ~call.seekFailed) => call.seekTo = <<call.pos0 + delta>>
            /\ call.seekTo \in {<<>>, <<call.pos0 + delta>>}
            /\ pc = "fetch" => spProducer.pos = call.pos0 + delta
            /\ (call.first /\ call.second = 1) => call.seekTo = <<>>

\* a paused source with no increment pending was moved from frame 1 back to
\* frame 0
PauseCompensation ==
    /\ pc = "fetch"
    /\ call.first /\ call.second = 0
    /\ call.pos0 = 1
    /\ call.seekTo = <<0>>
    /\ spProducer.pos = 0

\* C12: in a batch that is returned, element 0 carries the label and the
\* frame index fetched at the cursor of that call, and every element has the
\* name and the frameNumber of element 0
MultiViewIdentity ==
    (CallDone /\ Delivered(ret)) =>
        /\ ret.datums.data[1].name = <<"frame", call.posRead>>
        /\ call.posRead >= 0 => ret.datums.data[1].frameNumber = call.posRead
        /\ \A k \in DOMAIN ret.datums.data :
            /\ ret.datums.data[k].name = ret.datums.data[1].name
            /\ ret.datums.data[k].frameNumber = ret.datums.data[1].frameNumber

\* two views read at frame 2 were returned as a batch of two
StereoDelivered ==
    /\ CallDone /\ Delivered(ret)
    /\ Len(ret.datums.data) = 2
    /\ call.posRead = 2
    /\ ret.datums.data[2].frameNumber = 2

\* C13: after a read whose first image is not empty, 3 channels are kept as
\* they are, 1 channel is converted into 3 and the batch is returned with
\* cvOutputData equal to the converted cvInputData, any other number of
\* channels raises the channel error and returns no batch; the other views
\* are taken as they come
ChannelNormalization ==
    (CallDone /\ call.counted /\ ~EmptyFrame(call.cvMats)) =>
        LET channels == call.cvMats[1].channels
        IN  /\ channels = 3 =>
                /\ Delivered(ret)
                /\ ret.datums.data[1].cvInputData = call.cvMats[1]
                /\ ret.datums.data[1].cvOutputData = call.cvMats[1]
            /\ channels = 1 =>
                /\ Delivered(ret)
                /\ ret.datums.data[1].cvInputData = [empty |-> FALSE, channels |-> 3]
                /\ ret.datums.data[1].cvOutputData = [empty |-> FALSE, channels |-> 3]
            /\ channels \notin {1, 3} =>
                /\ ret = Raised("channels")
                /\ mGlobalCounter = call.g0
            /\ Delivered(ret) =>
                \A k \in 2..Len(call.cvMats) :
                    /\ ret.datums.data[k].cvInputData = call.cvMats[k]
                    /\ ret.datums.data[k].cvOutputData = call.cvMats[k]

\* a grey first view was converted and returned together with a second view
\* of 4 channels
GreyConverted ==
    /\ CallDone /\ Delivered(ret)
    /\ call.cvMats = <<Mat(1), Mat(4)>>
    /\ ret.datums.data[1].cvOutputData.channels = 3
    /\ ret.datums.data[2].cvInputData.channels = 4

\* C16: a call that read the seek channel fetches at the cursor it started at
\* plus the delta: the frames are read there, and the batch it returns
\* carries the label of that position and, the position being a frame index
\* (not negative), that position as frameNumber
SeekPrecedesFetch ==
    (CallDone /\ call.read /\ call.loaded = Fields) =>
        LET delta == call.second - (IF call.first THEN 1 ELSE 0)
        IN  /\ call.posRead = call.pos0 + delta
            /\ Delivered(ret) =>
                /\ ret.datums.data[1].name = <<"frame", call.pos0 + delta>>
                /\ call.pos0 + delta >= 0 =>
                    ret.datums.data[1].frameNumber = call.pos0 + delta

\* a call that started at frame 0 with an increment of 1 pending returned
\* frame 1
FetchedAfterSeek ==
    /\ CallDone /\ Delivered(ret)
    /\ call.pos0 = 0
    /\ ~call.first /\ call.second = 1
    /\ call.posRead = 1
    /\ ret.datums.data[1].frameNumber = 1

\* C17: a call that finds the source closed leaves the seek pair, both
\* counters and the cursor as they were, reads neither the pair nor a frame,
\* and has called release() only if the counter was past the range
ClosedCallFrame ==
    (CallDone /\ ret.kind = "return" /\ ~call.running) =>
        /\ <<videoSeek.first, videoSeek.second>> = call.seek0
        /\ mGlobalCounter = call.g0
        /\ mNumberConsecutiveEmptyFrames = call.e0
        /\ spProducer.pos = call.pos0
        /\ ~call.read /\ call.loaded = {} /\ call.seekTo = <<>>
        /\ call.released =>
            /\ range.last # ULLMax /\ range.first <= range.last
            /\ call.g0 > range.last - range.first

\* the source closed with an increment pending and the pause flag set: the
\* call returned false and the increment is still there
ClosedWithPendingSeek ==
    /\ CallDone /\ ~call.running
    /\ ret.kind = "return" /\ ~ret.running
    /\ spVideoSeek # Nullptr
    /\ videoSeek.first /\ videoSeek.second = 1

\* C14: once a call has raised the stall error, no later call returns a
\* batch or increments mGlobalCounter
StallTerminal ==
    obs.stalledAt # -1 =>
        /\ mGlobalCounter = obs.stalledAt
        /\ CallDone => ~Delivered(ret)

\* C15: a call indexes a calibration vector at i only if that vector is
\* longer than i, and a view that cameraMatrices does not cover is returned
\* without calibration
CalibrationInBounds ==
    /\ \A i \in call.reads :
        /\ i < spProducer.calib.m
        /\ i < spProducer.calib.e
        /\ i < spProducer.calib.i
    /\ (CallDone /\ Delivered(ret)) =>
        \A k \in DOMAIN ret.datums.data :
            k > spProducer.calib.m =>
                /\ ret.datums.data[k].cameraMatrix = <<"none">>
                /\ ret.datums.data[k].cameraExtrinsics = <<"none">>
                /\ ret.datums.data[k].cameraIntrinsics = <<"none">>

\* a call has returned false
ClosedReturned == CallDone /\ ret.kind = "return" /\ ~ret.running

\* C18: with a range [frameFirst, frameLast] that has an end, the caller of
\* the pull loop eventually gets false, and gets false from every call after
\* that; with no end of the range the producer never releases the source
PullLoopTerminates ==
    /\ BoundedRange ~> ClosedReturned
    /\ [](ClosedReturned => [](CallDone => ClosedReturned))
    /\ [](range.last = ULLMax => ~spProducer.released)

\* the range [1, 2) was used up by two deliveries, the source was released
\* and the call returned false
LoopEnded ==
    /\ ClosedReturned /\ call.released
    /\ range = [first |-> 1, last |-> 2]
    /\ mGlobalCounter = 2
    /\ spProducer.released

====
